---- MODULE Spec2Model ----
(***************************************************************************)
(* Ingestion pipeline and ledger of wealth_tracker:                        *)
(*   src/src/file_handler.py  FileHandler (normalise, validate, process)   *)
(*   src/src/database.py      Database (ledger tables, undo, balances)     *)
(* Money is in integer cents.  A calendar day is a small integer.          *)
(***************************************************************************)
EXTENDS Integers, Sequences, FiniteSets, TLC

\* ------------------------------------------------------------- bounds
\* Longest file (data rows) the user drops into the watch directory.
MaxRows == 2
\* Largest id a processed_files row gets (imports stop there).
MaxFileId == 2
\* Timestamps datetime.now() can give a relocated file (1..MaxStamp).
MaxStamp == 1
\* The calendar day of datetime.now().
Today == 2
\* Most files the user puts into the watch directory in one run.
MaxDrops == 2
\* Largest transaction id a direct add_transactions_with_file call gives.
MaxDirectId == 3
\* Timestamps a backup file name can carry (1..MaxBackupStamp).
MaxBackupStamp == 4

\* ---------------------------------------------------------- constants
\* Decimal('50000') in cents.
AmountLimit == 5000000

\* -------------------------------------------------------- small values
None == <<>>
Some(x) == <<x>>

Max(S) == CHOOSE m \in S : \A x \in S : x <= m

Abs(x) == IF x < 0 THEN -x ELSE x

\* ------------------------------------------------------------ accounts
\* The accounts _init_db seeds, with the ids INSERT gives them in order.
account_map ==
  [a \in {"PNC Checking", "Chase SW", "Chase Star Wars", "Capital One"} |->
     CASE a = "PNC Checking" -> 1
       [] a = "Chase SW" -> 2
       [] a = "Chase Star Wars" -> 3
       [] a = "Capital One" -> 4]

AccountNames == DOMAIN account_map

\* Table accounts after _init_db.
SeededAccounts == {[id |-> account_map[a], name |-> a] : a \in AccountNames}

AccountTypes == {"pnc", "chase_sw", "chase_star_wars", "capital_one"}

_get_account_name(account_type) ==
  CASE account_type = "pnc" -> "PNC Checking"
    [] account_type = "chase_sw" -> "Chase SW"
    [] account_type = "chase_star_wars" -> "Chase Star Wars"
    [] account_type = "capital_one" -> "Capital One"

\* ----------------------------------------------------------- raw cells
\* A currency cell as pandas hands it over, after the handler has removed
\* '$' and ',':  blank (NaN), lit0 (the text is exactly '0'), num (a decimal
\* text that is not exactly '0', worth v cents; v = 0 is '0.00'), bad (a text
\* Decimal() rejects).
Cell(k, v) == [k |-> k, v |-> v]
Blank == Cell("blank", 0)
Lit0 == Cell("lit0", 0)
Num(v) == Cell("num", v)
Bad == Cell("bad", 0)

\* A date cell: mdy ('%m/%d/%Y' text), ymd ('%Y-%m-%d' text) of day v, or bad.
Mdy(d) == Cell("mdy", d)
Ymd(d) == Cell("ymd", d)

\* A raw row.  a1/a2 are Withdrawals/Deposits (PNC), Debit/Credit (Capital
\* One), Amount/unused (Chase).
RawRow(date, a1, a2, bal, typ, desc, memo, cat) ==
  [date |-> date, a1 |-> a1, a2 |-> a2, bal |-> bal, typ |-> typ,
   desc |-> desc, memo |-> memo, cat |-> cat]

\* str(row[column]) of a text cell: read_csv gives NaN for an empty cell
\* (written "" here), and str(NaN) is 'nan'; any other text is kept.
Str(c) == IF c = "" THEN "nan" ELSE c

\* str.strip() on the texts the model uses.
Strip(s) ==
  CASE s = " " -> ""
    [] s = " Shop " -> "Shop"
    [] OTHER -> s

\* ------------------------------------------------------- normalisation
\* A datetime: calendar day and whether the time of day is past midnight.
DateTime(day, tod) == [day |-> day, tod |-> tod]

Now == DateTime(Today, 1)

DtGreater(a, b) == a.day > b.day \/ (a.day = b.day /\ a.tod > b.tod)

\* The result of normalising one row: a Transaction, or the row raised.
Raise == [raised |-> TRUE]
Txn(date, description, amount, category, account, balance) ==
  [raised |-> FALSE, date |-> date, description |-> Strip(description),
   amount |-> amount, category |-> Strip(category), account |-> account,
   balance |-> balance]

\* _parse_date: '%m/%d/%Y' first, then '%Y-%m-%d'; both give midnight.
ParsesDate(c) == c.k \in {"mdy", "ymd"}
_parse_date(c) == DateTime(c.v, 0)

\* Decimal(text) of a cleaned currency text.
ParsesDecimal(c) == c.k \in {"lit0", "num"}
Decimal(c) == IF c.k = "num" THEN c.v ELSE 0

\* The text compared with '0' in _process_pnc: a null cell becomes '0'.
IsLit0(c) == c.k \in {"blank", "lit0"}

_process_pnc_row(row) ==
  LET useW == ~IsLit0(row.a1)
      useD == ~useW /\ ~IsLit0(row.a2)
      src == IF useW THEN row.a1 ELSE row.a2
  IN IF (useW \/ useD) /\ ~ParsesDecimal(src) THEN Raise
     ELSE IF ~ParsesDate(row.date) THEN Raise
     ELSE IF ~ParsesDecimal(row.bal) THEN Raise
     ELSE Txn(_parse_date(row.date), Str(row.desc),
              IF useW THEN -Decimal(row.a1)
              ELSE IF useD THEN Decimal(row.a2) ELSE 0,
              Str(row.cat), "PNC Checking", Some(Decimal(row.bal)))

\* str.lower() on the texts the model uses.
Lower(s) ==
  CASE s = "Sale" -> "sale"
    [] s = "SALE" -> "sale"
    [] s = "Payment" -> "payment"
    [] s = "Return" -> "return"
    [] OTHER -> s

_process_chase_row_CaseSensitive(row, account_name) ==
  IF ~ParsesDecimal(row.a1) \/ ~ParsesDate(row.date) THEN Raise
  ELSE LET amount == IF Str(row.typ) \in {"sale", "payment"}
                     THEN -Decimal(row.a1) ELSE Decimal(row.a1)
           description == Strip(Str(row.desc))
           memo == Strip(Str(row.memo))
       IN Txn(_parse_date(row.date),
              IF memo # "" /\ memo # description
              THEN description \o " - " \o memo ELSE description,
              amount, Str(row.cat), account_name, None)

_process_chase_row(row, account_name) ==
  IF ~ParsesDecimal(row.a1) \/ ~ParsesDate(row.date) THEN Raise
  ELSE LET amount == IF Lower(Str(row.typ)) \in {"sale", "payment"}
                     THEN -Decimal(row.a1) ELSE Decimal(row.a1)
           description == Strip(Str(row.desc))
           memo == Strip(Str(row.memo))
       IN Txn(_parse_date(row.date),
              IF memo # "" /\ memo # description
              THEN description \o " - " \o memo ELSE description,
              amount, Str(row.cat), account_name, None)

_process_capital_one_row(row) ==
  IF ~ParsesDate(row.date) THEN Raise
  ELSE IF row.a1.k # "blank" /\ ~ParsesDecimal(row.a1) THEN Raise
  ELSE IF row.a1.k = "blank" /\ row.a2.k # "blank" /\ ~ParsesDecimal(row.a2)
       THEN Raise
  ELSE Txn(_parse_date(row.date), Str(row.desc),
           IF row.a1.k # "blank" THEN -Decimal(row.a1)
           ELSE IF row.a2.k # "blank" THEN Decimal(row.a2) ELSE 0,
           Str(row.cat), "Capital One", None)

\* The header signature each handler's row accesses need.
HandlerHeaders(account_type) ==
  CASE account_type = "pnc" -> "pnc"
    [] account_type \in {"chase_sw", "chase_star_wars"} -> "chase"
    [] account_type = "capital_one" -> "capital_one"

NormaliseRow(row, account_type) ==
  CASE account_type = "pnc" -> _process_pnc_row(row)
    [] account_type = "chase_sw" -> _process_chase_row(row, "Chase SW")
    [] account_type = "chase_star_wars" ->
         _process_chase_row(row, "Chase Star Wars")
    [] account_type = "capital_one" -> _process_capital_one_row(row)

RECURSIVE KeepNormalised(_, _)
KeepNormalised(rows, account_type) ==
  IF rows = <<>> THEN <<>>
  ELSE LET t == NormaliseRow(Head(rows), account_type)
           rest == KeepNormalised(Tail(rows), account_type)
       IN IF t.raised THEN rest ELSE <<t>> \o rest

_process_transactions_AbortAtRaise(content, account_type) ==
  IF content.headers # HandlerHeaders(account_type) THEN <<>>
  ELSE LET raising == {i \in DOMAIN content.rows :
                         NormaliseRow(content.rows[i], account_type).raised}
           n == IF raising = {} THEN Len(content.rows)
                ELSE (CHOOSE i \in raising : \A j \in raising : i <= j) - 1
       IN [i \in 1..n |-> NormaliseRow(content.rows[i], account_type)]

\* _process_transactions for a known account type: a row that raises (a bad
\* cell, or a column the file does not have) is skipped.
_process_transactions(content, account_type) ==
  IF content.headers # HandlerHeaders(account_type) THEN <<>>
  ELSE KeepNormalised(content.rows, account_type)

\* ---------------------------------------------------------- validation
validate_transaction_FutureFirst(t) ==
  IF t.date # None /\ DtGreater(t.date, Now)
  THEN "Transaction date cannot be in the future"
  ELSE IF t.description = "" THEN "Description cannot be empty"
  ELSE IF t.category = "" THEN "Category cannot be empty"
  ELSE IF t.amount = 0 THEN "Amount cannot be zero"
  ELSE IF t.date = None THEN "Date is required"
  ELSE IF t.account = "PNC Checking" /\ t.balance = None
       THEN "Balance is required for PNC transactions"
  ELSE IF Abs(t.amount) > AmountLimit
       THEN "Transaction amount exceeds reasonable limit"
  ELSE ""

validate_transaction_CeilingInclusive(t) ==
  IF t.description = "" THEN "Description cannot be empty"
  ELSE IF t.category = "" THEN "Category cannot be empty"
  ELSE IF t.amount = 0 THEN "Amount cannot be zero"
  ELSE IF t.date = None THEN "Date is required"
  ELSE IF t.account = "PNC Checking" /\ t.balance = None
       THEN "Balance is required for PNC transactions"
  ELSE IF DtGreater(t.date, Now)
       THEN "Transaction date cannot be in the future"
  ELSE IF Abs(t.amount) >= AmountLimit
       THEN "Transaction amount exceeds reasonable limit"
  ELSE ""

\* The message validate_transaction returns; "" stands for (True, "").  A
\* Transaction built without a date has date None.
validate_transaction(t) ==
  IF t.description = "" THEN "Description cannot be empty"
  ELSE IF t.category = "" THEN "Category cannot be empty"
  ELSE IF t.amount = 0 THEN "Amount cannot be zero"
  ELSE IF t.date = None THEN "Date is required"
  ELSE IF t.account = "PNC Checking" /\ t.balance = None
       THEN "Balance is required for PNC transactions"
  ELSE IF DtGreater(t.date, Now)
       THEN "Transaction date cannot be in the future"
  ELSE IF Abs(t.amount) > AmountLimit
       THEN "Transaction amount exceeds reasonable limit"
  ELSE ""

invalid_transactions_FirstOnly(batch) ==
  {i \in DOMAIN batch : i = 1 /\ validate_transaction(batch[i]) # ""}

\* The rows process_file collects as invalid.
invalid_transactions(batch) ==
  {i \in DOMAIN batch : validate_transaction(batch[i]) # ""}

\* The transactions a caller of validate_transaction passes: texts empty,
\* blank or not, amounts at zero and around the ceiling, no date or a date
\* around today, with and without balance.
TransInputs ==
  { Txn(date, description, amount, category, account, balance) :
      date \in {None, DateTime(Today - 1, 0), DateTime(Today, 0),
                DateTime(Today + 1, 0)},
      description \in {"Coffee", "", " "},
      amount \in {0, 1, -1, AmountLimit, -AmountLimit, AmountLimit + 1,
                  -AmountLimit - 1},
      category \in {"Food", ""},
      account \in {"PNC Checking", "Chase SW"},
      balance \in {None, Some(0), Some(100)} }

\* -------------------------------------------------------- file contents
\* The rows users' files are made of.  No balance or Chase amount cell is
\* blank: pandas gives NaN there, which the model's money does not cover.
PncRows ==
  { RawRow(Ymd(1), Num(450), Blank, Num(99550), "", "Coffee", "", "Food"),
    RawRow(Mdy(2), Blank, Num(500), Num(0), "", "Refund", "", "Food"),
    RawRow(Ymd(1), Blank, Blank, Num(100), "", "Void", "", "Food") }

ChaseRows ==
  { RawRow(Mdy(1), Num(2500), Blank, Blank, "Sale", "Shop", "Gift", "Shopping") }

\* Rows with a cell that makes the normaliser raise, next to rows it reads.
PncRowsWithBad ==
  { RawRow(Ymd(1), Num(450), Blank, Num(99550), "", "Coffee", "", "Food"),
    RawRow(Ymd(1), Bad, Blank, Num(99000), "", "Lunch", "", "Food"),
    RawRow(Ymd(1), Blank, Blank, Num(100), "", "Void", "", "Food") }

CapitalOneRowsWithBad ==
  { RawRow(Ymd(1), Num(1200), Blank, Blank, "", "Fuel", "", "Auto"),
    RawRow(Bad, Num(700), Blank, Blank, "", "Toll", "", "Auto") }

\* One-row files for the normalisers: both split columns blank, '0', 0.00,
\* a value or unreadable; Chase rows with the type tag in any case, a tag
\* of an inflow and none, and the memo empty, of spaces, distinct from the
\* description and equal to it.
SplitRows ==
  { RawRow(Ymd(1), a1, a2, Num(100), "", "Coffee", "", "Food") :
      a1 \in {Blank, Lit0, Num(0), Num(450), Bad},
      a2 \in {Blank, Lit0, Num(0), Num(500), Bad} }

TaggedRows ==
  { RawRow(Mdy(1), a1, Blank, Blank, typ, desc, memo, "Shopping") :
      a1 \in {Num(2500), Num(-2500), Bad},
      typ \in {"Sale", "SALE", "sale", "Payment", "payment", "Return", ""},
      desc \in {"Shop", " Shop "},
      memo \in {"", " ", "Gift", "Shop", " Shop "} }

SeqsUpTo(S, n) == UNION {[1..k -> S] : k \in 0..n}

File(headers, rows) == [headers |-> headers, rows |-> rows]

\* No file at a path.
Absent == File("absent", <<>>)

Contents ==
  {File("pnc", r) : r \in SeqsUpTo(PncRows, MaxRows)} \cup
  {File("chase", r) : r \in SeqsUpTo(ChaseRows, MaxRows)}

RowContents ==
  {File("pnc", r) : r \in SeqsUpTo(PncRowsWithBad, MaxRows)} \cup
  {File("capital_one", r) : r \in SeqsUpTo(CapitalOneRowsWithBad, MaxRows)}

\* What _process_transactions is called with: a one-row file and the
\* account type detected for it.
NormaliseInputs ==
  {[content |-> File("pnc", <<row>>), account_type |-> "pnc"] :
     row \in SplitRows} \cup
  {[content |-> File("capital_one", <<row>>), account_type |-> "capital_one"] :
     row \in SplitRows} \cup
  {[content |-> File("chase", <<row>>), account_type |-> account_type] :
     row \in TaggedRows, account_type \in {"chase_sw", "chase_star_wars"}}

\* The batches a caller passes to add_transactions_with_file itself, the
\* test suite's 'Test Account' among the account names.
DirectBatches ==
  SeqsUpTo({ Txn(DateTime(1, 0), "Test", 100, "Test", "Test Account", None),
             Txn(DateTime(1, 0), "Shop", -2500, "Shopping", "Chase SW", None) },
           MaxRows)

FileNames == {"a.csv", "b.csv"}

\* The names and contents of the directories a scan meets: extensions in
\* either case and foreign ones; files of a known format, of an unknown one
\* and files read_csv cannot read.
ScanNames == {"a.csv", "b.CSV", "c.xlsx", "d.txt"}

ScanContents ==
  {Absent, File("pnc", <<>>), File("unknown", <<>>), File("unreadable", <<>>)}

\* A name in the processed directory: the file's own name (stamp 0) or the
\* name with the timestamp suffix _move_to_processed adds.
ProcessedNames == FileNames \X (0..MaxStamp)

\* The file_info records callers pass: a detected type, or one no handler has.
FileInfos == [filename : FileNames, account_type : {"pnc", "chase_sw", "other"}]

\* A file in the backup directory: spending_tracker_<timestamp>.db (snap),
\* spending_tracker_<text that is no timestamp>.db (junk), or another name.
Snap(ts) == Cell("snap", ts)

BackupNames ==
  {Snap(ts) : ts \in 1..MaxBackupStamp} \cup {Cell("junk", 0), Cell("other", 0)}

\* ----------------------------------------------------------------- state
VARIABLES
  processed_files,  \* committed rows of table processed_files
  transactions,     \* committed rows of table transactions
  conn,             \* the rows process_file's open transaction has inserted
  watch,            \* watch directory: file name -> content, or Absent
  processed,        \* processed directory: processed name -> content, or Absent
  pc,               \* where process_file is
  cur,              \* process_file's locals
  last,             \* the last call that ended, with the state it started in
  drops,            \* files the user has put into the watch directory
  accounts,         \* rows of table accounts
  backups,          \* backup directory: file name -> database copy, or None
  job               \* where the scheduler thread's backup_job is

vars == <<processed_files, transactions, conn, watch, processed, pc, cur, last,
          drops, accounts, backups, job>>

\* What the ingestion calls and the user's drops never write.
kept == <<accounts, backups, job>>

NoConn == [processed_files |-> {}, transactions |-> {}]

NoInfo == [filename |-> "", account_type |-> ""]

Snapshot ==
  [processed_files |-> processed_files, transactions |-> transactions,
   watch |-> watch, processed |-> processed, backups |-> backups,
   accounts |-> accounts]

NoCur == [file_info |-> NoInfo, transactions |-> <<>>, file_id |-> 0,
          pre |-> [processed_files |-> {}, transactions |-> {},
                   watch |-> [f \in FileNames |-> Absent],
                   processed |-> [p \in ProcessedNames |-> Absent],
                   backups |-> [n \in BackupNames |-> None],
                   accounts |-> SeededAccounts]]

\* A call that ended: its arguments, what it returned, the state it started
\* in and, for a process_file that ended in its except branch or died, the
\* step it had reached and the rows of the batch inserted by then.
Ended(op, arg, ret, pre) ==
  [op |-> op, arg |-> arg, ret |-> ret, pre |-> pre, at |-> <<"", 0>>]

Init ==
  /\ processed_files = {}
  /\ transactions = {}
  /\ conn = NoConn
  /\ watch = [f \in FileNames |-> Absent]
  /\ processed = [p \in ProcessedNames |-> Absent]
  /\ pc = "idle"
  /\ cur = NoCur
  /\ drops = 0
  /\ accounts = SeededAccounts
  /\ backups = [n \in BackupNames |-> None]
  /\ job = "waiting"
  /\ last = Ended("none", NoInfo, "", NoCur.pre)

\* ---------------------------------------------------------------- ledger
\* A NULL file_id (the column is nullable; ids start at 1): no
\* `file_id = ?` with an id matches it.
NoFileId == 0

\* The id an INTEGER PRIMARY KEY column gives the next row of a table.
NextId(rows) == Max({r.id : r \in rows} \cup {0}) + 1

\* float(t.balance) if t.balance else None
StoredBalance(balance) ==
  IF balance # None /\ balance # Some(0) THEN balance ELSE None

\* t.date.strftime('%Y-%m-%d')
strftime(dt) == dt.day

\* SELECT id FROM accounts WHERE name = ?
KnownAccount(name) == \E a \in accounts : a.name = name
AccountId(name) == (CHOOSE a \in accounts : a.name = name).id

\* account_map[t.account] raises KeyError for a name the table does not
\* have, while the parameter list is built and before any INSERT runs.
add_transactions_raises(batch) ==
  \E i \in DOMAIN batch : ~KnownAccount(batch[i].account)

\* The rows add_transactions_with_file inserts, given the table it sees.
add_transactions_with_file(table, batch, file_id) ==
  { [id |-> NextId(table) + i - 1,
     account_id |-> AccountId(batch[i].account),
     file_id |-> file_id,
     date |-> strftime(batch[i].date),
     description |-> batch[i].description,
     amount |-> batch[i].amount,
     category |-> batch[i].category,
     balance |-> StoredBalance(batch[i].balance)] : i \in DOMAIN batch }

\* INSERT INTO processed_files (filename, account_id) ... RETURNING id
insert_processed_file(table, file_info) ==
  [id |-> NextId(table), filename |-> file_info.filename,
   account_id |-> AccountId(_get_account_name(file_info.account_type))]

AddTransactionsCall_InsertsKnownPrefix(batch, file_id) ==
  /\ pc = "idle"
  /\ NextId(transactions) + Len(batch) - 1 <= MaxDirectId
  /\ LET unknown == {i \in DOMAIN batch : ~KnownAccount(batch[i].account)}
         n == IF unknown = {} THEN Len(batch)
              ELSE (CHOOSE i \in unknown : \A j \in unknown : i <= j) - 1
     IN /\ transactions' = transactions \cup
             add_transactions_with_file(transactions, SubSeq(batch, 1, n),
                                        file_id)
        /\ last' = Ended("add_transactions_with_file",
                         [batch |-> batch, file_id |-> file_id],
                         IF unknown = {} THEN "None" ELSE "KeyError", Snapshot)
  /\ UNCHANGED <<processed_files, conn, watch, processed, pc, cur, drops>>
  /\ UNCHANGED kept

\* A caller other than process_file (tests/test_integration.py):
\*   with database.get_connection() as conn:
\*       database.add_transactions_with_file(conn, batch, file_id)
\* The connection commits when the block ends and rolls back when it raises.
AddTransactionsCall(batch, file_id) ==
  /\ pc = "idle"
  /\ NextId(transactions) + Len(batch) - 1 <= MaxDirectId
  /\ IF add_transactions_raises(batch)
     THEN /\ last' = Ended("add_transactions_with_file",
                           [batch |-> batch, file_id |-> file_id],
                           "KeyError", Snapshot)
          /\ UNCHANGED transactions
     ELSE /\ transactions' = transactions \cup
               add_transactions_with_file(transactions, batch, file_id)
          /\ last' = Ended("add_transactions_with_file",
                           [batch |-> batch, file_id |-> file_id],
                           "None", Snapshot)
  /\ UNCHANGED <<processed_files, conn, watch, processed, pc, cur, drops>>
  /\ UNCHANGED kept

\* -------------------------------------------------------------- queries
\* The columns of the tables _init_db creates.
TableColumns(table) ==
  CASE table = "accounts" -> {"id", "name"}
    [] table = "processed_files" ->
         {"id", "filename", "account_id", "processed_at"}
    [] table = "transactions" ->
         {"id", "account_id", "file_id", "date", "description", "amount",
          "category", "balance"}

\* SQLite refuses a statement in which an unqualified column name belongs
\* to more than one table of the FROM clause.
AmbiguousColumn(column, tables) ==
  Cardinality({t \in tables : column \in TableColumns(t)}) > 1

\* What a query method gives its caller.
Returned(v) == [raised |-> FALSE, value |-> v]
OperationalError == [raised |-> TRUE, value |-> 0]

\* Decimal(str(x)) if x is not None else Decimal('0')
DecimalOrZero(balance) == IF balance = None THEN 0 ELSE balance[1]

RowsOf(table, account_name) ==
  {t \in table : t.account_id = account_map[account_name]}

\* get_account_balance: SELECT balance FROM transactions t JOIN accounts a
\* ... WHERE a.name = ? ORDER BY date DESC, id DESC LIMIT 1
get_account_balance(table, account_name) ==
  IF \E column \in {"balance", "date", "id"} :
       AmbiguousColumn(column, {"transactions", "accounts"})
  THEN OperationalError
  ELSE LET rows == RowsOf(table, account_name)
       IN IF rows = {} THEN Returned(0)
          ELSE LET top == CHOOSE r \in rows : \A o \in rows :
                            o.date < r.date \/ (o.date = r.date /\ o.id <= r.id)
               IN Returned(DecimalOrZero(top.balance))

\* get_all_account_balances, the values it can give one account: the
\* LEFT JOIN has a row for each transaction on the account's latest date, in
\* no fixed order, and the loop keeps the last one.
get_all_account_balances(table, account_name) ==
  LET rows == RowsOf(table, account_name)
      newest == {r \in rows : \A o \in rows : o.date <= r.date}
  IN IF rows = {} THEN {0}
     ELSE {DecimalOrZero(r.balance) : r \in newest}

\* ----------------------------------------------------- get_pending_files
\* file.lower() cut to its extension, for the names the model uses.
LowerExt(name) ==
  CASE name \in {"a.csv", "b.csv", "b.CSV", "star_wars.csv"} -> ".csv"
    [] name = "c.xlsx" -> ".xlsx"
    [] name = "d.txt" -> ".txt"
    [] OTHER -> ""

\* filepath.lower(), for the paths the model uses.
LowerPath(path) ==
  CASE path = "Chase_STAR_WARS.csv" -> "chase_star_wars.csv"
    [] path = "b.CSV" -> "b.csv"
    [] OTHER -> path

\* 'star_wars' in text
ContainsStarWars(text) == text \in {"star_wars.csv", "chase_star_wars.csv"}

HasStarWars_CaseSensitive(name) == ContainsStarWars(name)

\* 'star_wars' in filepath.lower()
HasStarWars(name) == ContainsStarWars(LowerPath(name))

\* The columns each rule of _detect_account_type asks for.
PncColumns ==
  {"Date", "Description", "Withdrawals", "Deposits", "Category", "Balance"}

ChaseColumns ==
  {"Transaction Date", "Post Date", "Description", "Category", "Type",
   "Amount", "Memo"}

CapitalOneColumns ==
  {"Transaction Date", "Posted Date", "Card No.", "Description", "Category",
   "Debit", "Credit"}

AllColumns == PncColumns \cup ChaseColumns \cup CapitalOneColumns

DetectColumns_ChaseFirst(columns, filepath) ==
  IF ChaseColumns \subseteq columns
  THEN IF HasStarWars(filepath) THEN Some("chase_star_wars") ELSE Some("chase_sw")
  ELSE IF PncColumns \subseteq columns THEN Some("pnc")
  ELSE IF CapitalOneColumns \subseteq columns THEN Some("capital_one")
  ELSE None

\* _detect_account_type once read_csv has given the columns: the rules in
\* order, each `all(col in columns for col in [...])`.
DetectColumns(columns, filepath) ==
  IF PncColumns \subseteq columns THEN Some("pnc")
  ELSE IF ChaseColumns \subseteq columns
  THEN IF HasStarWars(filepath) THEN Some("chase_star_wars") ELSE Some("chase_sw")
  ELSE IF CapitalOneColumns \subseteq columns THEN Some("capital_one")
  ELSE None

\* The columns of a file of the given header signature.
Columns(headers) ==
  CASE headers = "pnc" -> PncColumns
    [] headers = "chase" -> ChaseColumns
    [] headers = "capital_one" -> CapitalOneColumns
    [] OTHER -> {"Date", "Amount"}

\* _detect_account_type: None when read_csv raises or no format's columns
\* are all there.
_detect_account_type(name, content) ==
  IF content.headers \in {"absent", "unreadable"} THEN None
  ELSE DetectColumns(Columns(content.headers), name)

\* The paths detection is asked about: with the token in lower case and in
\* mixed case, without it, and with a near miss.
DetectPaths == {"a.csv", "star_wars.csv", "Chase_STAR_WARS.csv", "starwars.csv"}

\* read_csv has given the columns of the file at a path, and
\* _detect_account_type classifies them.
DetectCall ==
  /\ pc = "idle"
  /\ last.op = "read_csv"
  /\ last' = [last EXCEPT !.op = "_detect_account_type",
                          !.ret = DetectColumns(last.arg.columns,
                                                last.arg.filename)]
  /\ UNCHANGED <<processed_files, transactions, conn, watch, processed, pc,
                 cur, drops, accounts, backups, job>>

\* process_file normalises a Chase export with the account type the scan
\* has detected for it.
NormaliseDetected(row) ==
  /\ pc = "idle"
  /\ last.op = "_detect_account_type"
  /\ last.arg.columns = ChaseColumns
  /\ last.ret # None
  /\ last' = [last EXCEPT !.op = "_process_transactions",
                          !.ret = _process_transactions(File("chase", <<row>>),
                                                        last.ret[1])]
  /\ UNCHANGED <<processed_files, transactions, conn, watch, processed, pc,
                 cur, drops, accounts, backups, job>>

\* os.listdir(watch_dir): the files there and the processed subdirectory.
ListDir(dir) == {f \in DOMAIN dir : dir[f] # Absent} \cup {"csv_files_added"}

get_pending_files_StopsAtUndetected(dir, done) ==
  LET candidates == {f \in ListDir(dir) \ {"csv_files_added"} :
                       /\ LowerExt(f) \in {".csv", ".xlsx"}
                       /\ done[<<f, 0>>] = Absent}
  IN IF \E f \in candidates : _detect_account_type(f, dir[f]) = None THEN {}
     ELSE {[filename |-> f, account_type |-> _detect_account_type(f, dir[f])[1]] :
             f \in candidates}

\* The pending list, as a set: listdir fixes no order.
get_pending_files(dir, done) ==
  {[filename |-> f, account_type |-> _detect_account_type(f, dir[f])[1]] :
     f \in {g \in ListDir(dir) \ {"csv_files_added"} :
              /\ LowerExt(g) \in {".csv", ".xlsx"}
              /\ done[<<g, 0>>] = Absent
              /\ _detect_account_type(g, dir[g]) # None}}

\* A caller scans the watch directory.
GetPendingFiles ==
  /\ pc = "idle"
  /\ last' = Ended("get_pending_files", NoInfo,
                   get_pending_files(watch, processed), Snapshot)
  /\ UNCHANGED <<processed_files, transactions, conn, watch, processed, pc,
                 cur, drops>>
  /\ UNCHANGED kept

\* ---------------------------------------------------------- environment
\* The user puts a file into the watch directory (or replaces one there).
DropFile(f, content) ==
  /\ pc = "idle"
  /\ drops < MaxDrops
  /\ watch[f] # content
  /\ watch' = [watch EXCEPT ![f] = content]
  /\ drops' = drops + 1
  /\ last' = Ended("drop", [filename |-> f, account_type |-> ""], "", Snapshot)
  /\ UNCHANGED <<processed_files, transactions, conn, processed, pc, cur>>
  /\ UNCHANGED kept

\* A caller passes one transaction to validate_transaction, which reads it
\* and the clock and writes nothing.
ValidateCall(trans) ==
  /\ pc = "idle"
  /\ last' = Ended("validate_transaction", trans, validate_transaction(trans),
                   Snapshot)
  /\ UNCHANGED <<processed_files, transactions, conn, watch, processed, pc,
                 cur, drops>>
  /\ UNCHANGED kept

\* process_file's call of _process_transactions on the rows it has read,
\* which writes nothing.
NormaliseCall(input) ==
  /\ pc = "idle"
  /\ last' = Ended("_process_transactions", input,
                   _process_transactions(input.content, input.account_type),
                   Snapshot)
  /\ UNCHANGED <<processed_files, transactions, conn, watch, processed, pc,
                 cur, drops>>
  /\ UNCHANGED kept

\* ---------------------------------------------------------- process_file
\* process_file up to the end of validation: read_csv, _process_transactions
\* and validate_transaction change nothing; any of them raising ends the call.
ReadsAndValidates_RejectsEmpty(file_info) ==
  /\ watch[file_info.filename] # Absent
  /\ file_info.account_type \in AccountTypes
  /\ _process_transactions(watch[file_info.filename], file_info.account_type) # <<>>
  /\ invalid_transactions(
       _process_transactions(watch[file_info.filename], file_info.account_type)) = {}

ReadsAndValidates(file_info) ==
  /\ watch[file_info.filename] # Absent
  /\ file_info.account_type \in AccountTypes
  /\ invalid_transactions(
       _process_transactions(watch[file_info.filename], file_info.account_type)) = {}

ProcessFile_Begin(file_info) ==
  /\ pc = "idle"
  /\ NextId(processed_files) <= MaxFileId
  /\ conn' = NoConn
  /\ IF ReadsAndValidates(file_info)
     THEN /\ pc' = "validated"
          /\ cur' = [file_info |-> file_info,
                     transactions |->
                       _process_transactions(watch[file_info.filename],
                                             file_info.account_type),
                     file_id |-> 0,
                     pre |-> Snapshot]
          /\ UNCHANGED last
     ELSE /\ pc' = "idle"
          /\ last' = Ended("process_file", file_info, "False", Snapshot)
          /\ UNCHANGED cur
  /\ UNCHANGED <<processed_files, transactions, watch, processed, drops>>
  /\ UNCHANGED kept

\* cursor = conn.execute('INSERT INTO processed_files ...'); file_id = ...
ProcessFile_InsertFile ==
  /\ pc = "validated"
  /\ LET row == insert_processed_file(processed_files, cur.file_info)
     IN /\ conn' = [conn EXCEPT !.processed_files = {row}]
        /\ cur' = [cur EXCEPT !.file_id = row.id]
  /\ pc' = "recorded"
  /\ UNCHANGED <<processed_files, transactions, watch, processed, last, drops>>
  /\ UNCHANGED kept

\* database.add_transactions_with_file(conn, transactions, file_id): the
\* parameter list is built first (a KeyError there ends process_file in its
\* except branch), then executemany runs one INSERT per row, each a step the
\* call can fail or die after.
ProcessFile_AddTransactions ==
  /\ pc = "recorded"
  /\ IF add_transactions_raises(cur.transactions)
     THEN /\ conn' = NoConn
          /\ pc' = "idle"
          /\ cur' = NoCur
          /\ last' = Ended("process_file", cur.file_info, "False", cur.pre)
     ELSE LET rows == add_transactions_with_file(transactions, cur.transactions,
                                                 cur.file_id)
              done == Cardinality(conn.transactions)
          IN /\ conn' = [conn EXCEPT !.transactions =
                           IF done < Len(cur.transactions)
                           THEN @ \cup {CHOOSE r \in rows :
                                          r.id = NextId(transactions) + done}
                           ELSE @]
             /\ pc' = IF done + 1 >= Len(cur.transactions)
                      THEN "inserted" ELSE "recorded"
             /\ UNCHANGED <<cur, last>>
  /\ UNCHANGED <<processed_files, transactions, watch, processed, drops>>
  /\ UNCHANGED kept

_move_to_processed_Overwrite(f, stamp) ==
  /\ processed' = [processed EXCEPT ![<<f, 0>>] = watch[f]]
  /\ watch' = [watch EXCEPT ![f] = Absent]

\* _move_to_processed: the file's own name, or name_<timestamp> when the
\* own name is taken; shutil.move replaces a file already at the target.
_move_to_processed(f, stamp) ==
  LET target == IF processed[<<f, 0>>] = Absent THEN <<f, 0>> ELSE <<f, stamp>>
  IN /\ processed' = [processed EXCEPT ![target] = watch[f]]
     /\ watch' = [watch EXCEPT ![f] = Absent]

ProcessFile_Move ==
  /\ pc = "inserted"
  /\ \E stamp \in 1..MaxStamp : _move_to_processed(cur.file_info.filename, stamp)
  /\ pc' = "moved"
  /\ UNCHANGED <<processed_files, transactions, conn, cur, last, drops>>
  /\ UNCHANGED kept

\* conn.commit(); return True
ProcessFile_Commit ==
  /\ pc = "moved"
  /\ processed_files' = processed_files \cup conn.processed_files
  /\ transactions' = transactions \cup conn.transactions
  /\ conn' = NoConn
  /\ pc' = "idle"
  /\ cur' = NoCur
  /\ last' = Ended("process_file", cur.file_info, "True", cur.pre)
  /\ UNCHANGED <<watch, processed, drops>>
  /\ UNCHANGED kept

ProcessFile_Raise_KeepsInserted ==
  /\ pc \in {"validated", "recorded", "inserted", "moved"}
  /\ processed_files' = processed_files \cup conn.processed_files
  /\ transactions' = transactions \cup conn.transactions
  /\ conn' = NoConn
  /\ pc' = "idle"
  /\ cur' = NoCur
  /\ last' = [Ended("process_file", cur.file_info, "False", cur.pre)
                EXCEPT !.at = <<pc, Cardinality(conn.transactions)>>]
  /\ UNCHANGED <<watch, processed, drops>>
  /\ UNCHANGED kept

\* The statement process_file is about to run raises (the INSERT, the batch
\* insert, the move or the commit): except: conn.rollback(); return False.
ProcessFile_Raise ==
  /\ pc \in {"validated", "recorded", "inserted", "moved"}
  /\ conn' = NoConn
  /\ pc' = "idle"
  /\ cur' = NoCur
  /\ last' = [Ended("process_file", cur.file_info, "False", cur.pre)
                EXCEPT !.at = <<pc, Cardinality(conn.transactions)>>]
  /\ UNCHANGED <<processed_files, transactions, watch, processed, drops>>
  /\ UNCHANGED kept

\* The process dies inside process_file: the open transaction is lost.
ProcessFile_Crash ==
  /\ pc \in {"validated", "recorded", "inserted", "moved"}
  /\ conn' = NoConn
  /\ pc' = "idle"
  /\ cur' = NoCur
  /\ last' = [Ended("process_file", cur.file_info, "crash", cur.pre)
                EXCEPT !.at = <<pc, Cardinality(conn.transactions)>>]
  /\ UNCHANGED <<processed_files, transactions, watch, processed, drops>>
  /\ UNCHANGED kept

\* ------------------------------------------------------ restore_csv_file
restore_csv_file(f) ==
  /\ pc = "idle"
  /\ IF processed[<<f, 0>>] # Absent
     THEN /\ watch' = [watch EXCEPT ![f] = processed[<<f, 0>>]]
          /\ processed' = [processed EXCEPT ![<<f, 0>>] = Absent]
          /\ last' = Ended("restore_csv_file",
                           [filename |-> f, account_type |-> ""], "True", Snapshot)
     ELSE /\ last' = Ended("restore_csv_file",
                           [filename |-> f, account_type |-> ""], "False", Snapshot)
          /\ UNCHANGED <<watch, processed>>
  /\ UNCHANGED <<processed_files, transactions, conn, pc, cur, drops>>
  /\ UNCHANGED kept

\* ------------------------------------------------------ undo_file_import
\* SELECT id FROM processed_files WHERE filename = ?  with fetchone(): one
\* of the matching rows; SQL fixes no order among them.
undo_lookup(filename) == {r \in processed_files : r.filename = filename}

\* What undo_file_import returns when called in the current state.
undo_returns(filename) == IF undo_lookup(filename) = {} THEN "False" ELSE "True"

undo_file_import_AlsoDeletesUnfiled(filename) ==
  /\ pc = "idle"
  /\ last' = Ended("undo_file_import",
                   [filename |-> filename, account_type |-> ""],
                   undo_returns(filename), Snapshot)
  /\ IF undo_lookup(filename) = {}
     THEN UNCHANGED <<processed_files, transactions>>
     ELSE \E result \in undo_lookup(filename) :
            /\ transactions' = {t \in transactions :
                                  t.file_id \notin {result.id, NoFileId}}
            /\ processed_files' = {r \in processed_files : r.id # result.id}
  /\ UNCHANGED <<conn, watch, processed, pc, cur, drops>>
  /\ UNCHANGED kept

undo_file_import(filename) ==
  /\ pc = "idle"
  /\ last' = Ended("undo_file_import",
                   [filename |-> filename, account_type |-> ""],
                   undo_returns(filename), Snapshot)
  /\ IF undo_lookup(filename) = {}
     THEN UNCHANGED <<processed_files, transactions>>
     ELSE \E result \in undo_lookup(filename) :
            /\ transactions' = {t \in transactions : t.file_id # result.id}
            /\ processed_files' = {r \in processed_files : r.id # result.id}
  /\ UNCHANGED <<conn, watch, processed, pc, cur, drops>>
  /\ UNCHANGED kept

\* --------------------------------------------------------------- backups
\* The database file, as shutil.copy2 copies it.
DatabaseFile ==
  [accounts |-> accounts, processed_files |-> processed_files,
   transactions |-> transactions]

\* create_backup at a second whose timestamp is ts: a copy under
\* spending_tracker_<ts>.db, replacing a file of that name.
create_backup(ts) ==
  /\ pc = "idle"
  /\ backups' = [backups EXCEPT ![Snap(ts)] = Some(DatabaseFile)]
  /\ last' = Ended("create_backup", NoInfo, Snap(ts), Snapshot)
  /\ UNCHANGED <<processed_files, transactions, conn, watch, processed, pc,
                 cur, drops, accounts, job>>

\* The user puts a file that is no snapshot into the backup directory.
PutForeignFile(name) ==
  /\ pc = "idle"
  /\ name.k # "snap"
  /\ backups[name] = None
  /\ backups' = [backups EXCEPT ![name] = Some(DatabaseFile)]
  /\ last' = Ended("put", NoInfo, name, Snapshot)
  /\ UNCHANGED <<processed_files, transactions, conn, watch, processed, pc,
                 cur, drops, accounts, job>>

\* The names at most n of which remain to be put in order, newest first.
RECURSIVE NewestFirst(_)
NewestFirst(names) ==
  IF names = {} THEN <<>>
  ELSE LET newest == CHOOSE n \in names : \A o \in names : o.v <= n.v
       IN <<newest>> \o NewestFirst(names \ {newest})

RECURSIVE OldestFirst(_)
OldestFirst(names) ==
  IF names = {} THEN <<>>
  ELSE LET oldest == CHOOSE n \in names : \A o \in names : n.v <= o.v
       IN <<oldest>> \o OldestFirst(names \ {oldest})

get_available_backups_OldestFirst(dir) ==
  OldestFirst({n \in DOMAIN dir : dir[n] # None /\ n.k = "snap"})

\* get_available_backups: the files named spending_tracker_<timestamp>.db
\* whose timestamp parses, sorted by timestamp, reverse=True.
get_available_backups(dir) ==
  NewestFirst({n \in DOMAIN dir : dir[n] # None /\ n.k = "snap"})

GetAvailableBackups ==
  /\ pc = "idle"
  /\ last' = Ended("get_available_backups", NoInfo,
                   get_available_backups(backups), Snapshot)
  /\ UNCHANGED <<processed_files, transactions, conn, watch, processed, pc,
                 cur, drops, accounts, backups, job>>

\* cleanup_old_backups; os.remove fails for the files in failed, which is
\* logged and passed over.
cleanup_old_backups(failed) ==
  /\ pc = "idle"
  /\ LET listed == get_available_backups(backups)
         backups_to_delete ==
           IF Len(listed) <= 2 THEN {}
           ELSE {listed[i] : i \in 3..Len(listed)}
     IN /\ failed \subseteq backups_to_delete
        /\ backups' = [n \in DOMAIN backups |->
                         IF n \in backups_to_delete \ failed
                         THEN None ELSE backups[n]]
  /\ last' = Ended("cleanup_old_backups", [failed |-> failed], "None", Snapshot)
  /\ UNCHANGED <<processed_files, transactions, conn, watch, processed, pc,
                 cur, drops, accounts, job>>

\* ------------------------------------------------------------ backup_job
\* The scheduler thread runs backup_job while the main thread is anywhere:
\* create_backup copies the database file, which holds what is committed.
\* The weekly job's clock has moved on since the last snapshot: ts is newer
\* than every snapshot already there.
BackupJob_Create_SharesConnection(ts) ==
  /\ job = "waiting"
  /\ \A n \in DOMAIN backups : (n.k = "snap" /\ backups[n] # None) => n.v < ts
  /\ backups' = [backups EXCEPT ![Snap(ts)] = Some(DatabaseFile)]
  /\ job' = "created"
  /\ conn' = NoConn
  /\ UNCHANGED <<processed_files, transactions, watch, processed, pc, cur,
                 last, drops, accounts>>

BackupJob_Create(ts) ==
  /\ job = "waiting"
  /\ \A n \in DOMAIN backups : (n.k = "snap" /\ backups[n] # None) => n.v < ts
  /\ backups' = [backups EXCEPT ![Snap(ts)] = Some(DatabaseFile)]
  /\ job' = "created"
  /\ UNCHANGED <<processed_files, transactions, conn, watch, processed, pc,
                 cur, last, drops, accounts>>

\* ... then cleanup_old_backups, with any of its removals failing, and the
\* job is over until it is due again.
BackupJob_Cleanup ==
  /\ job = "created"
  /\ LET listed == get_available_backups(backups)
         backups_to_delete ==
           IF Len(listed) <= 2 THEN {}
           ELSE {listed[i] : i \in 3..Len(listed)}
     IN \E failed \in SUBSET backups_to_delete :
          backups' = [n \in DOMAIN backups |->
                        IF n \in backups_to_delete \ failed
                        THEN None ELSE backups[n]]
  /\ job' = "waiting"
  /\ UNCHANGED <<processed_files, transactions, conn, watch, processed, pc,
                 cur, last, drops, accounts>>

\* ------------------------------------------------------------------ spec
\* The calls with the given file_info records, and the drops of the given
\* contents under their file names.
NextFor(infos, contents) ==
  \/ \E file_info \in infos, content \in contents :
       DropFile(file_info.filename, content)
  \/ \E file_info \in infos : ProcessFile_Begin(file_info)
  \/ ProcessFile_InsertFile
  \/ ProcessFile_AddTransactions
  \/ ProcessFile_Move
  \/ ProcessFile_Commit
  \/ ProcessFile_Raise
  \/ ProcessFile_Crash
  \/ \E file_info \in infos : restore_csv_file(file_info.filename)
  \/ \E file_info \in infos : undo_file_import(file_info.filename)

\* The calls and drops over the given file names and contents.
NextOver(names, contents) ==
  NextFor({file_info \in FileInfos : file_info.filename \in names}, contents)

\* One file name, every content.
Next == NextOver({"a.csv"}, Contents)

Spec == Init /\ [][Next]_vars

\* Files with cells the normalisers cannot read, as PNC and Capital One
\* exports.
RowInfos == [filename : {"a.csv"}, account_type : {"pnc", "capital_one"}]

NextRows == NextFor(RowInfos, RowContents)

SpecRows == Init /\ [][NextRows]_vars

\* Chase imports next to direct calls of add_transactions_with_file.
InsertInfos == [filename : {"a.csv"}, account_type : {"chase_sw"}]

NextInsert ==
  \/ NextFor(InsertInfos, {File("chase", r) : r \in SeqsUpTo(ChaseRows, MaxRows)})
  \/ \E batch \in DirectBatches : AddTransactionsCall(batch, 1)

SpecInsert == Init /\ [][NextInsert]_vars

\* Chase imports and undos next to direct calls of
\* add_transactions_with_file with a file id and with none.
NextUndo ==
  \/ NextInsert
  \/ \E batch \in DirectBatches : AddTransactionsCall(batch, NoFileId)

SpecUndo == Init /\ [][NextUndo]_vars

\* Scans of every directory over ScanNames and ScanContents, with any of
\* the names taken in the processed directory.
InitScan ==
  /\ processed_files = {}
  /\ transactions = {}
  /\ conn = NoConn
  /\ watch \in [ScanNames -> ScanContents]
  /\ \E taken \in SUBSET ScanNames :
       processed = [p \in ScanNames \X (0..MaxStamp) |->
                      IF p[2] = 0 /\ p[1] \in taken
                      THEN File("pnc", <<>>) ELSE Absent]
  /\ pc = "idle"
  /\ cur = NoCur
  /\ drops = 0
  /\ accounts = SeededAccounts
  /\ backups = [n \in BackupNames |-> None]
  /\ job = "waiting"
  /\ last = Ended("none", NoInfo, "", NoCur.pre)

NextScan == GetPendingFiles

SpecScan == InitScan /\ [][NextScan]_vars

\* Backups, listings and cleanups of the backup directory.
NextBackup ==
  \/ \E ts \in 1..MaxBackupStamp : create_backup(ts)
  \/ \E name \in BackupNames : PutForeignFile(name)
  \/ GetAvailableBackups
  \/ \E failed \in SUBSET BackupNames : cleanup_old_backups(failed)

SpecBackup == Init /\ [][NextBackup]_vars

\* Chase imports and undos on the main thread, backup_job on the scheduler
\* thread, with two snapshots of the new database already taken.
InitConcurrent ==
  /\ processed_files = {}
  /\ transactions = {}
  /\ conn = NoConn
  /\ watch = [f \in FileNames |-> Absent]
  /\ processed = [p \in ProcessedNames |-> Absent]
  /\ pc = "idle"
  /\ cur = NoCur
  /\ drops = 0
  /\ accounts = SeededAccounts
  /\ backups = [n \in BackupNames |->
                  IF n \in {Snap(1), Snap(2)}
                  THEN Some([accounts |-> SeededAccounts,
                             processed_files |-> {}, transactions |-> {}])
                  ELSE None]
  /\ job = "waiting"
  /\ last = Ended("none", NoInfo, "", [NoCur.pre EXCEPT !.backups = backups])

NextConcurrent ==
  \/ NextFor(InsertInfos, {File("chase", r) : r \in [1..MaxRows -> ChaseRows]})
  \/ \E ts \in 1..MaxBackupStamp : BackupJob_Create(ts)
  \/ BackupJob_Cleanup

SpecConcurrent == InitConcurrent /\ [][NextConcurrent]_vars

\* The normalisers alone, over NormaliseInputs.
NextNormalise == \E input \in NormaliseInputs : NormaliseCall(input)

SpecNormalise == Init /\ [][NextNormalise]_vars

\* Detection over every set of the known columns and DetectPaths, and the
\* Chase normaliser under the type it gives.
InitDetect ==
  /\ processed_files = {}
  /\ transactions = {}
  /\ conn = NoConn
  /\ watch = [f \in FileNames |-> Absent]
  /\ processed = [p \in ProcessedNames |-> Absent]
  /\ pc = "idle"
  /\ cur = NoCur
  /\ drops = 0
  /\ accounts = SeededAccounts
  /\ backups = [n \in BackupNames |-> None]
  /\ job = "waiting"
  /\ \E columns \in SUBSET AllColumns, filepath \in DetectPaths :
       last = Ended("read_csv", [filename |-> filepath, columns |-> columns],
                    None, NoCur.pre)

NextDetect ==
  \/ DetectCall
  \/ \E row \in ChaseRows : NormaliseDetected(row)

SpecDetect == InitDetect /\ [][NextDetect]_vars

\* The calls the window makes and no new file: a.csv is in the watch
\* directory from the start, and process_file is called with the records
\* get_pending_files gives.
InitCalls ==
  /\ processed_files = {}
  /\ transactions = {}
  /\ conn = NoConn
  /\ \E content \in Contents :
       watch = [f \in FileNames |-> IF f = "a.csv" THEN content ELSE Absent]
  /\ processed = [p \in ProcessedNames |-> Absent]
  /\ pc = "idle"
  /\ cur = NoCur
  /\ drops = 0
  /\ accounts = SeededAccounts
  /\ backups = [n \in BackupNames |-> None]
  /\ job = "waiting"
  /\ last = Ended("none", NoInfo, "", NoCur.pre)

NextCalls ==
  \/ GetPendingFiles
  \/ \E file_info \in get_pending_files(watch, processed) :
       ProcessFile_Begin(file_info)
  \/ ProcessFile_InsertFile
  \/ ProcessFile_AddTransactions
  \/ ProcessFile_Move
  \/ ProcessFile_Commit
  \/ ProcessFile_Raise
  \/ ProcessFile_Crash
  \/ \E f \in FileNames : restore_csv_file(f)
  \/ \E f \in FileNames : undo_file_import(f)

SpecCalls == InitCalls /\ [][NextCalls]_vars

\* The validator alone, over TransInputs.
NextValidate == \E trans \in TransInputs : ValidateCall(trans)

SpecValidate == Init /\ [][NextValidate]_vars

\* ----------------------------------------------------------------- claims
\* The file name of the last call, and the batch process_file normalised.
LastName == last.arg.filename

LastFile == last.pre.watch[LastName]

LastBatch ==
  IF LastFile # Absent /\ last.arg.account_type \in AccountTypes
  THEN _process_transactions(LastFile, last.arg.account_type)
  ELSE <<>>

ProcessFileEnded == pc = "idle" /\ last.op = "process_file"

LedgerAsBefore ==
  /\ processed_files = last.pre.processed_files
  /\ transactions = last.pre.transactions

\* C1: when validate_transaction fails for any row of the batch (any
\* position k of n), process_file returns False, the ledger holds no row and
\* no record it did not hold before the call, and the file is still in the
\* watch directory with nothing added to the processed directory.
C1_ValidationFailureAtomic ==
  (/\ ProcessFileEnded
   /\ last.ret \in {"True", "False"}
   /\ \E k \in DOMAIN LastBatch : validate_transaction(LastBatch[k]) # "")
  => /\ last.ret = "False"
     /\ LedgerAsBefore
     /\ \A r \in processed_files :
          r.filename = LastName => r \in last.pre.processed_files
     /\ watch[LastName] = LastFile
     /\ watch[LastName] # Absent
     /\ processed = last.pre.processed

\* A two-row batch whose first row is valid and whose second is not was
\* refused.
C1_Witness ==
  /\ ProcessFileEnded
  /\ last.ret = "False"
  /\ Len(LastBatch) = 2
  /\ validate_transaction(LastBatch[1]) = ""
  /\ validate_transaction(LastBatch[2]) # ""

\* C2: after process_file has ended in any way (return or crash), the file has
\* left the watch directory only if the call's processed_files record is
\* committed.
C2_MoveOnlyAfterCommit ==
  (/\ ProcessFileEnded
   /\ LastFile # Absent
   /\ watch[LastName] = Absent)
  => \E r \in processed_files \ last.pre.processed_files :
       r.filename = LastName

\* C3: whenever process_file returns False the two ledger tables are as
\* before the call and the file is where it was in the watch directory.
C3_FailureLeavesNoTrace ==
  (ProcessFileEnded /\ last.ret = "False")
  => /\ LedgerAsBefore
     /\ watch = last.pre.watch

\* The row the claim expects for a normalised transaction.
ExpectedRow(t, id, file_id) ==
  [id |-> id, account_id |-> account_map[t.account], file_id |-> file_id,
   date |-> t.date.day, description |-> t.description, amount |-> t.amount,
   category |-> t.category, balance |-> t.balance]

\* C4: whenever process_file returns True, exactly one processed_files record
\* is new (the file's name, the account of its type), the new transactions
\* are exactly the normalised rows, each with that record's id as file_id,
\* and every row that was there before is still there unchanged.
C4_CommitShape ==
  (ProcessFileEnded /\ last.ret = "True")
  => LET newFiles == processed_files \ last.pre.processed_files
         newRows == transactions \ last.pre.transactions
     IN /\ last.pre.processed_files \subseteq processed_files
        /\ last.pre.transactions \subseteq transactions
        /\ Cardinality(newFiles) = 1
        /\ \A r \in newFiles :
             /\ r.filename = LastName
             /\ r.account_id =
                  account_map[_get_account_name(last.arg.account_type)]
             /\ \E g \in [DOMAIN LastBatch -> newRows] :
                  /\ \A row \in newRows : \E i \in DOMAIN LastBatch : g[i] = row
                  /\ \A i, j \in DOMAIN LastBatch : g[i] = g[j] => i = j
                  /\ \A i \in DOMAIN LastBatch :
                       g[i] = ExpectedRow(LastBatch[i], g[i].id, r.id)

UndoEnded == pc = "idle" /\ last.op = "undo_file_import"

\* C5: when a record with the file name exists, undo_file_import returns
\* True and afterwards no record with that name and no transaction of an
\* import of that name is in the ledger.
C5_UndoRemovesWholeImport ==
  (UndoEnded /\ \E r \in last.pre.processed_files : r.filename = LastName)
  => /\ last.ret = "True"
     /\ \A r \in processed_files : r.filename # LastName
     /\ \A t \in transactions :
          \A r \in last.pre.processed_files :
            r.filename = LastName => t.file_id # r.id

\* C6: with no record of the file name undo_file_import returns False and
\* leaves the ledger as it was; and called again right after it returned
\* True for a name, it returns False.
C6_UndoUnknownFile ==
  /\ (UndoEnded /\ \A r \in last.pre.processed_files : r.filename # LastName)
     => (last.ret = "False" /\ LedgerAsBefore)
  /\ (UndoEnded /\ last.ret = "True") => undo_returns(LastName) = "False"

\* What a caller can observe of the ledger.
Observable(table) ==
  [count |-> Cardinality(table),
   balance |-> [a \in AccountNames |-> get_account_balance(table, a)]]

\* C7: process_file commits a batch under a record F and undo_file_import of
\* F's file name follows at once: the transaction count and every account's
\* get_account_balance are those from before the commit.
C7_InsertUndoRoundTrip ==
  [][(/\ ProcessFileEnded
      /\ last.ret = "True"
      /\ undo_file_import(LastName))
     => Observable(transactions') = Observable(last.pre.transactions)]_vars

\* The balance field of the account's transaction with the greatest date,
\* the greatest id among those; zero without transactions.
LatestBalance(table, account_name) ==
  LET rows == RowsOf(table, account_name)
  IN IF rows = {} THEN 0
     ELSE DecimalOrZero(
            (CHOOSE r \in rows : \A o \in rows :
               o.date < r.date \/ (o.date = r.date /\ o.id <= r.id)).balance)

\* C8: get_account_balance returns the balance field of the account's latest
\* transaction (by date, then id), zero when it has none.
C8_BalanceIsLatestStatementBalance ==
  \A a \in AccountNames :
    get_account_balance(transactions, a) = Returned(LatestBalance(transactions, a))

\* C9: after a batch of one transaction with amount a and no statement
\* balance is added to an account, get_account_balance of the account is its
\* value before plus a.
C9_BalanceGrowsByAmount ==
  (/\ ProcessFileEnded
   /\ last.ret = "True"
   /\ Len(LastBatch) = 1
   /\ LastBatch[1].balance = None)
  => LET account == LastBatch[1].account
         before == get_account_balance(last.pre.transactions, account)
         after == get_account_balance(transactions, account)
     IN /\ ~before.raised
        /\ ~after.raised
        /\ after.value = before.value + LastBatch[1].amount

\* C10: for every seeded account get_all_account_balances gives what
\* get_account_balance gives.
C10_BalanceQueriesAgree ==
  \A a \in AccountNames :
    \A v \in get_all_account_balances(transactions, a) :
      get_account_balance(transactions, a) = Returned(v)

\* C11: process_file for a file whose name is in the processed directory
\* returns False, leaves the ledger as it was and moves no file.
C11_ReingestionRefused ==
  (/\ ProcessFileEnded
   /\ last.ret \in {"True", "False"}
   /\ last.pre.processed[<<LastName, 0>>] # Absent)
  => /\ last.ret = "False"
     /\ LedgerAsBefore
     /\ watch = last.pre.watch
     /\ processed = last.pre.processed

\* C12: when process_file has moved the file and a file of its name was in
\* the processed directory, the moved file is there under a name with a
\* timestamp suffix and the file that had the name still has it, with the
\* content it had.
C12_RelocationKeepsExisting ==
  (/\ ProcessFileEnded
   /\ LastFile # Absent
   /\ watch[LastName] = Absent
   /\ last.pre.processed[<<LastName, 0>>] # Absent)
  => /\ processed[<<LastName, 0>>] = last.pre.processed[<<LastName, 0>>]
     /\ \E stamp \in 1..MaxStamp : processed[<<LastName, stamp>>] = LastFile

\* A file was imported while another content sat under its name in the
\* processed directory.
C12_Witness ==
  /\ ProcessFileEnded
  /\ last.ret = "True"
  /\ watch[LastName] = Absent
  /\ last.pre.processed[<<LastName, 0>>] # Absent
  /\ last.pre.processed[<<LastName, 0>>] # LastFile
  /\ \E stamp \in 1..MaxStamp : processed[<<LastName, stamp>>] = LastFile

\* The rows of a file the normaliser of the account type reads, normalised,
\* in the file's order.
Readable(content, account_type) ==
  LET reads(row) == ~NormaliseRow(row, account_type).raised
      rows == SelectSeq(content.rows, reads)
  IN [i \in DOMAIN rows |-> NormaliseRow(rows[i], account_type)]

HasUnreadableRow(content, account_type) ==
  \E i \in DOMAIN content.rows :
    NormaliseRow(content.rows[i], account_type).raised

\* C13: process_file on a file of the account type's format with rows whose
\* normalisation raises: the batch is every other row, normalised; the call
\* goes on to the inserts exactly when all of those are valid (the dropped
\* rows alone never end it), and the commit adds one transaction per row of
\* that batch.
C13_RowFailuresSkipped ==
  [][/\ \A file_info \in RowInfos :
          LET content == watch[file_info.filename]
              batch == Readable(content, file_info.account_type)
          IN (/\ ProcessFile_Begin(file_info)
              /\ content.headers = HandlerHeaders(file_info.account_type)
              /\ HasUnreadableRow(content, file_info.account_type))
             => IF \A i \in DOMAIN batch : validate_transaction(batch[i]) = ""
                THEN pc' = "validated" /\ cur'.transactions = batch
                ELSE pc' = "idle" /\ last'.ret = "False"
     /\ ProcessFile_Commit
          => /\ last'.ret = "True"
             /\ Cardinality(transactions' \ transactions) = Len(cur.transactions)
             /\ Cardinality(processed_files' \ processed_files) = 1]_vars

\* A file with an unreadable row and a valid one was committed with the one
\* transaction.
C13_Witness ==
  /\ ProcessFileEnded
  /\ last.ret = "True"
  /\ Len(LastFile.rows) = 2
  /\ HasUnreadableRow(LastFile, last.arg.account_type)
  /\ NormaliseRow(LastFile.rows[1], last.arg.account_type).raised
  /\ Cardinality(transactions \ last.pre.transactions) = 1
  /\ \E t \in transactions \ last.pre.transactions :
       t.description = Readable(LastFile, last.arg.account_type)[1].description

ValidateEnded == last.op = "validate_transaction"

\* The rules in the order of the claim, with the message of each.
RuleMessage ==
  << "Description cannot be empty", "Category cannot be empty",
     "Amount cannot be zero", "Date is required",
     "Balance is required for PNC transactions",
     "Transaction date cannot be in the future",
     "Transaction amount exceeds reasonable limit" >>

Violates(t, rule) ==
  CASE rule = 1 -> t.description = ""
    [] rule = 2 -> t.category = ""
    [] rule = 3 -> t.amount = 0
    [] rule = 4 -> t.date = None
    [] rule = 5 -> t.account = "PNC Checking" /\ t.balance = None
    [] rule = 6 -> t.date # None /\ t.date.day > Today
    [] rule = 7 -> t.amount > AmountLimit \/ t.amount < -AmountLimit

\* C14: validate_transaction returns the message of the first rule the
\* transaction violates, in the order empty description, empty category,
\* zero amount, missing date, missing PNC balance, future date, amount above
\* the ceiling; and (True, "") when it violates none.
C14_ValidatorRuleOrder ==
  ValidateEnded
  => LET violated == {rule \in DOMAIN RuleMessage : Violates(last.arg, rule)}
     IN IF violated = {} THEN last.ret = ""
        ELSE last.ret =
               RuleMessage[CHOOSE r \in violated : \A o \in violated : r <= o]

\* A transaction violating the first, the third and the sixth rule got the
\* message of the first.
C14_Witness ==
  /\ ValidateEnded
  /\ Violates(last.arg, 1)
  /\ Violates(last.arg, 3)
  /\ Violates(last.arg, 6)
  /\ last.ret = RuleMessage[1]

\* Valid but for its amount and date.
ValidButAmountAndDate(t) ==
  /\ t.description # ""
  /\ t.category # ""
  /\ t.account = "PNC Checking" => t.balance # None

\* C15: amount 50000.00 and -50000.00 pass and 50000.01 fails, amount 0
\* fails whatever the rest, a date of tomorrow fails and a date of today
\* passes, each for a transaction that is valid otherwise.
C15_ValidatorBoundaries ==
  ValidateEnded
  => LET t == last.arg
         passes == last.ret = ""
         dateOk == t.date # None /\ t.date.day <= Today
         amountOk == t.amount # 0 /\ Abs(t.amount) <= AmountLimit
     IN /\ t.amount = 0 => ~passes
        /\ (ValidButAmountAndDate(t) /\ dateOk)
             => /\ Abs(t.amount) = AmountLimit => passes
                /\ Abs(t.amount) = AmountLimit + 1 => ~passes
        /\ (ValidButAmountAndDate(t) /\ amountOk /\ t.date # None)
             => /\ t.date.day = Today + 1 => ~passes
                /\ t.date.day = Today => passes

\* A transaction of today with amount -50000.00 passed.
C15_Witness ==
  /\ ValidateEnded
  /\ last.arg.amount = -AmountLimit
  /\ last.arg.date = DateTime(Today, 0)
  /\ last.ret = ""

\* C16: every stored transaction of 'PNC Checking' has a balance, and the
\* rows process_file has just committed for a PNC file carry, row by row, the
\* balance of the source row (0.00 included).
C16_PncBalancePersisted ==
  /\ \A t \in transactions :
       t.account_id = account_map["PNC Checking"] => t.balance # None
  /\ (ProcessFileEnded /\ last.ret = "True" /\ last.arg.account_type = "pnc")
     => \A i \in DOMAIN LastBatch :
          \E t \in transactions \ last.pre.transactions :
            /\ t.id = NextId(last.pre.transactions) + i - 1
            /\ t.balance = LastBatch[i].balance

\* C17: in every state, after any calls of process_file and
\* undo_file_import however they ended, each transaction's file_id is the id
\* of a processed_files record, each record's account is a seeded one, and a
\* record is in the ledger only with its whole batch: a call that returned
\* True left one new record with as many transactions as the batch has rows,
\* a call that ended otherwise left the ledger as it was.
C17_NoPartialBatchNoOrphan ==
  /\ \A t \in transactions : \E r \in processed_files : r.id = t.file_id
  /\ \A r \in processed_files : \E a \in SeededAccounts : a.id = r.account_id
  /\ ProcessFileEnded
     => IF last.ret = "True"
        THEN \E r \in processed_files \ last.pre.processed_files :
               /\ processed_files \ last.pre.processed_files = {r}
               /\ Cardinality({t \in transactions : t.file_id = r.id})
                    = Len(LastBatch)
        ELSE LedgerAsBefore

\* process_file died after the first of two INSERTs of its batch.
C17_Witness ==
  /\ ProcessFileEnded
  /\ last.ret = "crash"
  /\ last.at = <<"recorded", 1>>
  /\ Len(LastBatch) = 2
  /\ LedgerAsBefore

ScanEnded == last.op = "get_pending_files"

\* The names of ScanNames that end in .csv or .xlsx, whatever the case.
CsvOrXlsxNames == {"a.csv", "b.CSV", "c.xlsx"}

RecognizedFormat(content) == content.headers \in {"pnc", "chase", "capital_one"}

\* C19: get_pending_files lists exactly the files of the watch directory
\* with extension .csv or .xlsx in any case, no file of their name in the
\* processed directory and a recognized format, whatever other files are
\* there, and leaves both directories and the ledger as they were.
C19_ScanExcludesWithoutSideEffects ==
  ScanEnded
  => /\ {p.filename : p \in last.ret}
          = {f \in CsvOrXlsxNames :
               /\ watch[f] # Absent
               /\ processed[<<f, 0>>] = Absent
               /\ RecognizedFormat(watch[f])}
     /\ watch = last.pre.watch
     /\ processed = last.pre.processed
     /\ LedgerAsBefore

\* A scan over a file whose name is in the processed directory, a file
\* read_csv cannot read, a PNC file with a foreign extension and a pending
\* PNC file listed the pending one.
C19_Witness ==
  /\ ScanEnded
  /\ watch["a.csv"] = File("pnc", <<>>)
  /\ processed[<<"a.csv", 0>>] # Absent
  /\ watch["c.xlsx"] = File("unreadable", <<>>)
  /\ watch["d.txt"] = File("pnc", <<>>)
  /\ watch["b.CSV"] = File("pnc", <<>>)
  /\ processed[<<"b.CSV", 0>>] = Absent
  /\ last.ret = {[filename |-> "b.CSV", account_type |-> "pnc"]}

\* The snapshots in a backup directory.
Snapshots(dir) == {n \in DOMAIN dir : n.k = "snap" /\ dir[n] # None}

\* C20: after a cleanup_old_backups in which no deletion failed, at most two
\* snapshots remain, they were there before with the same content and every
\* snapshot removed is older than each of them; with two or fewer snapshots
\* a cleanup removes nothing; and get_available_backups lists the snapshots
\* there, each once, by descending timestamp.
C20_BackupRetention ==
  /\ (last.op = "cleanup_old_backups" /\ last.arg.failed = {})
     => LET before == Snapshots(last.pre.backups)
            after == Snapshots(backups)
        IN /\ Cardinality(after) <= 2
           /\ after \subseteq before
           /\ Cardinality(before) >= 2 => Cardinality(after) = 2
           /\ \A n \in after : backups[n] = last.pre.backups[n]
           /\ \A n \in after, gone \in before \ after : gone.v < n.v
  /\ (last.op = "cleanup_old_backups"
      /\ Cardinality(Snapshots(last.pre.backups)) <= 2)
     => backups = last.pre.backups
  /\ last.op = "get_available_backups"
     => /\ {last.ret[i] : i \in DOMAIN last.ret} = Snapshots(backups)
        /\ Len(last.ret) = Cardinality(Snapshots(backups))
        /\ \A i, j \in DOMAIN last.ret : i < j => last.ret[i].v > last.ret[j].v

\* A cleanup of four snapshots next to a file that is none left the two
\* newest.
C20_Witness ==
  /\ last.op = "cleanup_old_backups"
  /\ last.arg.failed = {}
  /\ Cardinality(Snapshots(last.pre.backups)) = 4
  /\ last.pre.backups[Cell("junk", 0)] # None
  /\ Snapshots(backups) = {Snap(MaxBackupStamp), Snap(MaxBackupStamp - 1)}

\* What a process_file that returned True has committed, from the state it
\* started in.
CommittedFromPre ==
  /\ processed_files = last.pre.processed_files \cup
       {insert_processed_file(last.pre.processed_files, last.arg)}
  /\ transactions = last.pre.transactions \cup
       add_transactions_with_file(last.pre.transactions, LastBatch,
                                  NextId(last.pre.processed_files))

\* C21: with backup_job (create_backup, then cleanup_old_backups) running on
\* the scheduler thread at any point of process_file or between the calls,
\* every step of process_file and undo_file_import can still be taken, and
\* the call ends with the ledger its starting state alone determines: the
\* record and the batch when process_file returns True, the ledger as before
\* when it returns False or dies, the ledger less one record of the name and
\* its transactions after an undo.
C21_BackupDoesNotInterfere ==
  /\ pc = "validated" => ENABLED ProcessFile_InsertFile
  /\ pc = "recorded" => ENABLED ProcessFile_AddTransactions
  /\ pc = "inserted" => ENABLED ProcessFile_Move
  /\ pc = "moved" => ENABLED ProcessFile_Commit
  /\ pc = "idle" => ENABLED undo_file_import("a.csv")
  /\ (ProcessFileEnded /\ last.ret = "True") => CommittedFromPre
  /\ (ProcessFileEnded /\ last.ret \in {"False", "crash"}) => LedgerAsBefore
  /\ (pc = "idle" /\ last.op = "undo_file_import")
     => LET found == {r \in last.pre.processed_files : r.filename = LastName}
        IN IF found = {} THEN LedgerAsBefore /\ last.ret = "False"
           ELSE /\ last.ret = "True"
                /\ \E result \in found :
                     /\ processed_files = last.pre.processed_files \ {result}
                     /\ transactions =
                          {t \in last.pre.transactions : t.file_id # result.id}

\* process_file returned True and committed its batch while a whole
\* backup_job ran inside the call: the oldest snapshot is gone and the new
\* one holds the ledger as it was committed then.
C21_Witness ==
  /\ ProcessFileEnded
  /\ last.ret = "True"
  /\ Cardinality(transactions) = MaxRows
  /\ job = "waiting"
  /\ last.pre.backups[Snap(1)] # None
  /\ last.pre.backups[Snap(3)] = None
  /\ backups[Snap(1)] = None
  /\ backups[Snap(3)] = Some([accounts |-> SeededAccounts,
                              processed_files |-> {}, transactions |-> {}])

\* A call of _process_transactions on a one-row file has ended; its row, and
\* whether a split column of it is filled.
NormaliseEnded == last.op = "_process_transactions"

NormalisedRow == last.arg.content.rows[1]

Present(c) == c.k # "blank"

SplitEnded ==
  /\ NormaliseEnded
  /\ last.arg.account_type \in {"pnc", "capital_one"}
  /\ NormalisedRow.a1.k # "bad"
  /\ NormalisedRow.a2.k # "bad"

\* C22: a withdrawal/deposit row and a debit/credit row with readable cells
\* and at least one of the two columns filled give exactly one Transaction,
\* whose amount is minus the first column when that is filled and plus the
\* second column otherwise.
C22_SplitColumnSign ==
  (SplitEnded /\ (Present(NormalisedRow.a1) \/ Present(NormalisedRow.a2)))
  => /\ Len(last.ret) = 1
     /\ last.ret[1].amount =
          IF Present(NormalisedRow.a1) THEN -Decimal(NormalisedRow.a1)
          ELSE Decimal(NormalisedRow.a2)

\* C23: in the withdrawal/deposit format a blank withdrawal with a deposit d
\* gives +d, and a withdrawal cell of 0 (written '0' or '0.00') with a
\* deposit d is a withdrawal: the amount is not +d.
C23_BlankIsAbsentNotZero ==
  (/\ SplitEnded
   /\ last.arg.account_type = "pnc"
   /\ NormalisedRow.a2 = Num(500))
  => /\ Len(last.ret) = 1
     /\ NormalisedRow.a1 = Blank => last.ret[1].amount = 500
     /\ NormalisedRow.a1 \in {Lit0, Num(0)} => last.ret[1].amount # 500

\* A Chase row with a readable amount has been normalised.
TaggedEnded ==
  /\ NormaliseEnded
  /\ last.arg.account_type \in {"chase_sw", "chase_star_wars"}
  /\ NormalisedRow.a1.k # "bad"

\* The type tags that spell sale or payment in some case.
OutflowTags == {"Sale", "SALE", "sale", "Payment", "payment"}

\* C24: a Chase row gives one Transaction whose amount is minus the parsed
\* amount when the type tag is sale or payment in any case, and the parsed
\* amount itself for any other tag or none; amount 25.00 with type 'Sale'
\* gives -25.00.
C24_TypeTagSign ==
  TaggedEnded
  => /\ Len(last.ret) = 1
     /\ last.ret[1].amount =
          IF NormalisedRow.typ \in OutflowTags
          THEN -Decimal(NormalisedRow.a1) ELSE Decimal(NormalisedRow.a1)
     /\ (NormalisedRow.a1 = Num(2500) /\ NormalisedRow.typ = "Sale")
        => last.ret[1].amount = -2500

\* Amount 25.00 under the tag 'SALE' came out as -25.00.
C24_Witness ==
  /\ TaggedEnded
  /\ NormalisedRow.a1 = Num(2500)
  /\ NormalisedRow.typ = "SALE"
  /\ Len(last.ret) = 1
  /\ last.ret[1].amount = -2500

\* C25: a Chase row's description is '<description> - <memo>', both
\* trimmed, when the memo cell is not blank (empty or spaces) and differs
\* from the description, and the trimmed description alone otherwise.
C25_MemoAppended ==
  TaggedEnded
  => /\ Len(last.ret) = 1
     /\ last.ret[1].description =
          IF Strip(NormalisedRow.memo) # ""
             /\ Strip(NormalisedRow.memo) # Strip(NormalisedRow.desc)
          THEN Strip(NormalisedRow.desc) \o " - " \o Strip(NormalisedRow.memo)
          ELSE Strip(NormalisedRow.desc)

\* A call of _detect_account_type has ended; the formats it can name.
DetectEnded == last.op = "_detect_account_type"

Has(signature) == signature \subseteq last.arg.columns

ChaseTypes == {Some("chase_sw"), Some("chase_star_wars")}

\* C26 as amended: _detect_account_type gives the format of the first rule,
\* in the order PNC, Chase, Capital One, whose columns are all among the
\* file's columns, whatever other columns the file has; it gives None when
\* no rule's columns are all there; and the call changes nothing.
C26_FirstContainedSignature ==
  DetectEnded
  => /\ Has(PncColumns) => last.ret = Some("pnc")
     /\ (~Has(PncColumns) /\ Has(ChaseColumns)) => last.ret \in ChaseTypes
     /\ (~Has(PncColumns) /\ ~Has(ChaseColumns) /\ Has(CapitalOneColumns))
        => last.ret = Some("capital_one")
     /\ (~Has(PncColumns) /\ ~Has(ChaseColumns) /\ ~Has(CapitalOneColumns))
        => last.ret = None
     /\ LedgerAsBefore
     /\ watch = last.pre.watch
     /\ processed = last.pre.processed

\* A file with the columns of both the PNC and the Chase format was
\* classified PNC.
C26_Witness ==
  /\ DetectEnded
  /\ last.arg.columns = PncColumns \cup ChaseColumns
  /\ last.ret = Some("pnc")

\* C26: _detect_account_type names a format exactly when the file's header
\* set is one of the known signatures, and gives None for every other
\* header set.
C26_ExactSignatureMatch ==
  DetectEnded
  => (last.ret # None
      <=> last.arg.columns \in {PncColumns, ChaseColumns, CapitalOneColumns})

\* The paths of DetectPaths that hold the token star_wars in some case.
TokenInPath(path) == path \in {"star_wars.csv", "Chase_STAR_WARS.csv"}

\* C27: a file the Chase rule classifies is 'chase_star_wars' exactly when
\* its path holds star_wars in any case, and 'chase_sw' otherwise; its
\* transactions then carry the account 'Chase Star Wars', respectively
\* 'Chase SW'; a file another rule classifies, or none, gets the same answer
\* with and without the token.
C27_StarWarsToken ==
  /\ (DetectEnded /\ Has(ChaseColumns) /\ ~Has(PncColumns))
     => last.ret = IF TokenInPath(last.arg.filename)
                   THEN Some("chase_star_wars") ELSE Some("chase_sw")
  /\ (DetectEnded /\ (Has(PncColumns) \/ ~Has(ChaseColumns)))
     => /\ last.ret \notin ChaseTypes
        /\ last.ret = DetectColumns(last.arg.columns, "a.csv")
        /\ last.ret = DetectColumns(last.arg.columns, "star_wars.csv")
  /\ (last.op = "_process_transactions" /\ last.arg.columns = ChaseColumns)
     => /\ Len(last.ret) = 1
        /\ last.ret[1].account = IF TokenInPath(last.arg.filename)
                                  THEN "Chase Star Wars" ELSE "Chase SW"

\* The row of a Chase export named Chase_STAR_WARS.csv went to the account
\* 'Chase Star Wars'.
C27_Witness ==
  /\ last.op = "_process_transactions"
  /\ last.arg.columns = ChaseColumns
  /\ last.arg.filename = "Chase_STAR_WARS.csv"
  /\ Len(last.ret) = 1
  /\ last.ret[1].account = "Chase Star Wars"

\* C28: in every state the ledger holds at most one processed_files record
\* of a file name.
C28_OneRecordPerFilename ==
  \A r1 \in processed_files, r2 \in processed_files :
    r1.filename = r2.filename => r1 = r2

\* process_file has ended, without dying and without an exception after
\* validation, on a file of its account type's format that gave no
\* Transaction.
EmptyBatchEnded ==
  /\ ProcessFileEnded
  /\ last.ret \in {"True", "False"}
  /\ last.at = <<"", 0>>
  /\ last.arg.account_type \in AccountTypes
  /\ LastFile # Absent
  /\ LastFile.headers = HandlerHeaders(last.arg.account_type)
  /\ LastBatch = <<>>

\* C29: process_file on a file of a recognised format with no data row, or
\* with rows that all fail normalisation, returns True when no later
\* statement raises; the ledger then has one new processed_files record of
\* the file's name, no new transaction and none under that record, and the
\* file is in the processed directory and no longer in the watch directory.
C29_EmptyBatchCommits ==
  EmptyBatchEnded
  => /\ last.ret = "True"
     /\ \E r \in processed_files :
          /\ r \notin last.pre.processed_files
          /\ processed_files = last.pre.processed_files \cup {r}
          /\ r.filename = LastName
          /\ \A t \in transactions : t.file_id # r.id
     /\ transactions = last.pre.transactions
     /\ watch[LastName] = Absent
     /\ \E stamp \in 0..MaxStamp :
          /\ processed[<<LastName, stamp>>] = LastFile
          /\ \A p \in DOMAIN processed :
               p # <<LastName, stamp>> => processed[p] = last.pre.processed[p]

\* A file of MaxRows rows that all failed normalisation was committed with
\* a record and no transaction.
C29_Witness ==
  /\ EmptyBatchEnded
  /\ Len(LastFile.rows) = MaxRows
  /\ last.ret = "True"
  /\ Cardinality(processed_files) = Cardinality(last.pre.processed_files) + 1
  /\ transactions = last.pre.transactions

\* C30: undo_file_import removes at most one processed_files record, one of
\* the file name given, and of the transactions exactly those whose file_id
\* is that record's id; every other record and transaction, the
\* transactions without file_id among them, the accounts, and the files of
\* the watch, processed and backup directories are as before the call.
C30_UndoFrame ==
  (pc = "idle" /\ last.op = "undo_file_import")
  => LET gone == last.pre.processed_files \ processed_files
     IN /\ processed_files \subseteq last.pre.processed_files
        /\ Cardinality(gone) <= 1
        /\ \A r \in gone : r.filename = LastName
        /\ transactions =
             {t \in last.pre.transactions : \A r \in gone : t.file_id # r.id}
        /\ \A t \in last.pre.transactions :
             t.file_id = NoFileId => t \in transactions
        /\ accounts = last.pre.accounts
        /\ watch = last.pre.watch
        /\ processed = last.pre.processed
        /\ backups = last.pre.backups

\* An undo removed one of two imports of a.csv and its transactions, and
\* left the other import and a transaction without file_id.
C30_Witness ==
  /\ pc = "idle"
  /\ last.op = "undo_file_import"
  /\ last.ret = "True"
  /\ Cardinality(last.pre.processed_files) = 2
  /\ Cardinality(processed_files) = 1
  /\ Cardinality(transactions) < Cardinality(last.pre.transactions)
  /\ \E t \in transactions : t.file_id = NoFileId
  /\ \E t \in transactions, r \in processed_files : t.file_id = r.id

====
